---------------------------- MODULE Spec2Model ----------------------------
(***************************************************************************)
(* Model of bot.py: a Telegram bot that parses lead notifications, files   *)
(* them in a date-keyed store persisted as JSON, and reports on them on    *)
(* demand (/report) and once a day (job "daily_report").                   *)
(*                                                                         *)
(* Text is modelled as a sequence of characters, each character a TLA+     *)
(* string: an ASCII character is itself ("a", "0", "."), a Cyrillic letter *)
(* is the token "cy_<name>" (small) or "CY_<name>" (capital), and the em   *)
(* dash of the default placeholder is "emdash".                            *)
(***************************************************************************)
EXTENDS Integers, Sequences, FiniteSets, TLC

(***************************************************************************)
(* Bounds of the model.                                                    *)
(***************************************************************************)
\* leads held by the store at one time
MaxLeads == 2
\* steps of the wall clock in the store specification
MaxTicks == 2
\* days of the job queue's clock in the scheduling specification
MaxSchedDays == 1

(***************************************************************************)
(* Characters and numbers.                                                 *)
(***************************************************************************)
Digits == <<"0", "1", "2", "3", "4", "5", "6", "7", "8", "9">>

\* character -> the digit it is
DigitOf == [c \in {Digits[i] : i \in 1..10} |-> (CHOOSE i \in 1..10 : Digits[i] = c) - 1]

IsDigit(c) == c \in DOMAIN DigitOf

DigitVal(c) == DigitOf[c]

DigitChar(n) == Digits[n + 1]

IsSpace(c) == c \in {" ", "\t", "\n"}

AllDigits(s) == \A i \in 1..Len(s) : IsDigit(s[i])

RECURSIVE ParseNum(_)
ParseNum(s) ==
    IF s = <<>> THEN 0
    ELSE 10 * ParseNum(SubSeq(s, 1, Len(s) - 1)) + DigitVal(s[Len(s)])

Num2(n) == <<DigitChar((n \div 10) % 10), DigitChar(n % 10)>>

Num4(n) == Num2(n \div 100) \o Num2(n % 100)

Num6(n) == Num2(n \div 10000) \o Num4(n % 10000)

\* "%02d" as a TLA+ string, for the day keys
Pad2(n) == IF n < 10 THEN "0" \o ToString(n) ELSE ToString(n)

RECURSIVE Concat(_)
Concat(ss) == IF ss = <<>> THEN <<>> ELSE Head(ss) \o Concat(Tail(ss))

(***************************************************************************)
(* datetime: naive datetimes, as the program holds them.                   *)
(***************************************************************************)
IsLeap(y) == (y % 4 = 0 /\ y % 100 # 0) \/ y % 400 = 0

DaysInMonth(y, m) ==
    IF m = 2 THEN (IF IsLeap(y) THEN 29 ELSE 28)
    ELSE IF m \in {4, 6, 9, 11} THEN 30 ELSE 31

datetime(y, m, d, hh, mi, ss, us) ==
    [year |-> y, month |-> m, day |-> d,
     hour |-> hh, minute |-> mi, second |-> ss, microsecond |-> us]

ValidDate(y, m, d) ==
    /\ y \in 1..9999
    /\ m \in 1..12
    /\ d \in 1..DaysInMonth(y, m)

ValueError == [ok |-> FALSE]

Ok(v) == [ok |-> TRUE, val |-> v]

\* datetime.strptime(s, "%d.%m.%Y") for s of the shape \d{2}\.\d{2}\.\d{4}
strptime(s) ==
    LET d == ParseNum(SubSeq(s, 1, 2))
        m == ParseNum(SubSeq(s, 4, 5))
        y == ParseNum(SubSeq(s, 7, 10))
    IN  IF ValidDate(y, m, d) THEN Ok(datetime(y, m, d, 0, 0, 0, 0))
        ELSE ValueError

\* dt.strftime("%Y-%m-%d"): the day key
DayKey(dt) == ToString(dt.year) \o "-" \o Pad2(dt.month) \o "-" \o Pad2(dt.day)

\* dt + timedelta(days=1)
PlusOneDay(dt) ==
    IF dt.day < DaysInMonth(dt.year, dt.month)
        THEN [dt EXCEPT !.day = dt.day + 1]
    ELSE IF dt.month < 12
        THEN [dt EXCEPT !.day = 1, !.month = dt.month + 1]
    ELSE [dt EXCEPT !.day = 1, !.month = 1, !.year = dt.year + 1]

\* whether day a is before day b, or the same day
DateLeq(a, b) ==
    \/ a.year < b.year
    \/ a.year = b.year /\ a.month < b.month
    \/ a.year = b.year /\ a.month = b.month /\ a.day <= b.day

SameDate(a, b) == a.year = b.year /\ a.month = b.month /\ a.day = b.day

\* the microsecond of the day
TimeOfDay(dt) == <<dt.hour * 3600 + dt.minute * 60 + dt.second, dt.microsecond>>

\* dt1 <= dt2 on naive datetimes
DtLeq(a, b) ==
    IF SameDate(a, b)
        THEN \/ TimeOfDay(a)[1] < TimeOfDay(b)[1]
             \/ TimeOfDay(a)[1] = TimeOfDay(b)[1] /\ TimeOfDay(a)[2] <= TimeOfDay(b)[2]
    ELSE DateLeq(a, b)

\* isoformat as isoformat(timespec="seconds") would write it
isoformat_seconds(dt) ==
    Num4(dt.year) \o <<"-">> \o Num2(dt.month) \o <<"-">> \o Num2(dt.day)
    \o <<"T">> \o Num2(dt.hour) \o <<":">> \o Num2(dt.minute)
    \o <<":">> \o Num2(dt.second)

\* dt.isoformat(): the fraction is written only when microsecond is not 0
isoformat(dt) ==
    Num4(dt.year) \o <<"-">> \o Num2(dt.month) \o <<"-">> \o Num2(dt.day)
    \o <<"T">> \o Num2(dt.hour) \o <<":">> \o Num2(dt.minute)
    \o <<":">> \o Num2(dt.second)
    \o (IF dt.microsecond = 0 THEN <<>> ELSE <<".">> \o Num6(dt.microsecond))

\* datetime.fromisoformat(s), on the two shapes isoformat writes
fromisoformat(s) ==
    LET shape ==
            /\ Len(s) \in {19, 26}
            /\ AllDigits(SubSeq(s, 1, 4)) /\ s[5] = "-"
            /\ AllDigits(SubSeq(s, 6, 7)) /\ s[8] = "-"
            /\ AllDigits(SubSeq(s, 9, 10)) /\ s[11] = "T"
            /\ AllDigits(SubSeq(s, 12, 13)) /\ s[14] = ":"
            /\ AllDigits(SubSeq(s, 15, 16)) /\ s[17] = ":"
            /\ AllDigits(SubSeq(s, 18, 19))
            /\ Len(s) = 26 => (s[20] = "." /\ AllDigits(SubSeq(s, 21, 26)))
        y  == ParseNum(SubSeq(s, 1, 4))
        m  == ParseNum(SubSeq(s, 6, 7))
        d  == ParseNum(SubSeq(s, 9, 10))
        hh == ParseNum(SubSeq(s, 12, 13))
        mi == ParseNum(SubSeq(s, 15, 16))
        ss == ParseNum(SubSeq(s, 18, 19))
        us == IF Len(s) = 26 THEN ParseNum(SubSeq(s, 21, 26)) ELSE 0
    IN  IF shape /\ ValidDate(y, m, d) /\ hh < 24 /\ mi < 60 /\ ss < 60
            THEN Ok(datetime(y, m, d, hh, mi, ss, us))
        ELSE ValueError

(***************************************************************************)
(* Strings.                                                                *)
(***************************************************************************)
\* The letters of the model's alphabet: LowerChars[i] and UpperChars[i] are
\* the two cases of one letter.
LowerChars ==
  <<
    "a", "b", "c", "d", "e", "f", "g", "h", "i", "j", "k", "l", "m", "n",
    "o", "p", "q", "r", "s", "t", "u", "v", "w", "x", "y", "z", "cy_a",
    "cy_be", "cy_ve", "cy_ghe", "cy_de", "cy_ie", "cy_i", "cy_short_i",
    "cy_ka", "cy_el", "cy_em", "cy_en", "cy_o", "cy_pe", "cy_er", "cy_es",
    "cy_te", "cy_u", "cy_che", "cy_sha", "cy_yeru", "cy_soft_sign",
    "cy_ukr_i", "cy_yi", "cy_ya", "cy_tse"
  >>

UpperChars ==
  <<
    "A", "B", "C", "D", "E", "F", "G", "H", "I", "J", "K", "L", "M", "N",
    "O", "P", "Q", "R", "S", "T", "U", "V", "W", "X", "Y", "Z", "CY_a",
    "CY_be", "CY_ve", "CY_ghe", "CY_de", "CY_ie", "CY_i", "CY_short_i",
    "CY_ka", "CY_el", "CY_em", "CY_en", "CY_o", "CY_pe", "CY_er", "CY_es",
    "CY_te", "CY_u", "CY_che", "CY_sha", "CY_yeru", "CY_soft_sign",
    "CY_ukr_i", "CY_yi", "CY_ya", "CY_tse"
  >>

CITY_MAP ==
  <<
    <<<<"cy_ka", "cy_i", "cy_yi", "cy_ve">>,
      <<"CY_ka", "cy_i", "cy_yi", "cy_ve">>>>,
    <<<<"cy_ka", "cy_i", "cy_ie", "cy_ve">>,
      <<"CY_ka", "cy_i", "cy_yi", "cy_ve">>>>,
    <<<<"k", "y", "i", "v">>,
      <<"CY_ka", "cy_i", "cy_yi", "cy_ve">>>>,
    <<<<"k", "i", "e", "v">>,
      <<"CY_ka", "cy_i", "cy_yi", "cy_ve">>>>,
    <<<<"cy_ukr_i", "cy_er", "cy_pe", "cy_ukr_i", "cy_en", "cy_soft_sign">>,
      <<"CY_ukr_i", "cy_er", "cy_pe", "cy_ukr_i", "cy_en", "cy_soft_sign">>>>,
    <<<<"cy_i", "cy_er", "cy_pe", "cy_ie", "cy_en", "cy_soft_sign">>,
      <<"CY_ukr_i", "cy_er", "cy_pe", "cy_ukr_i", "cy_en", "cy_soft_sign">>>>,
    <<<<"i", "r", "p", "i", "n">>,
      <<"CY_ukr_i", "cy_er", "cy_pe", "cy_ukr_i", "cy_en", "cy_soft_sign">>>>,
    <<<<"cy_be", "cy_u", "cy_che", "cy_a">>,
      <<"CY_be", "cy_u", "cy_che", "cy_a">>>>,
    <<<<"b", "u", "c", "h", "a">>,
      <<"CY_be", "cy_u", "cy_che", "cy_a">>>>,
    <<<<"cy_be", "cy_er", "cy_o", "cy_ve", "cy_a", "cy_er", "cy_i">>,
      <<"CY_be", "cy_er", "cy_o", "cy_ve", "cy_a", "cy_er", "cy_i">>>>,
    <<<<"cy_be", "cy_er", "cy_o", "cy_ve", "cy_a", "cy_er", "cy_yeru">>,
      <<"CY_be", "cy_er", "cy_o", "cy_ve", "cy_a", "cy_er", "cy_i">>>>,
    <<<<"b", "r", "o", "v", "a", "r", "y">>,
      <<"CY_be", "cy_er", "cy_o", "cy_ve", "cy_a", "cy_er", "cy_i">>>>,
    <<<<"cy_ve", "cy_i", "cy_sha", "cy_en", "cy_ie", "cy_ve", "cy_ie">>,
      <<"CY_ve", "cy_i", "cy_sha", "cy_en", "cy_ie", "cy_ve", "cy_ie">>>>,
    <<<<"cy_ve", "cy_i", "cy_sha", "cy_en", "cy_ie", "cy_ve", "cy_o", "cy_ie">>,
      <<"CY_ve", "cy_i", "cy_sha", "cy_en", "cy_ie", "cy_ve", "cy_ie">>>>,
    <<<<"cy_be", "cy_o", "cy_er", "cy_i", "cy_es", "cy_pe", "cy_ukr_i", "cy_el", "cy_soft_sign">>,
      <<"CY_be", "cy_o", "cy_er", "cy_i", "cy_es", "cy_pe", "cy_ukr_i", "cy_el", "cy_soft_sign">>>>,
    <<<<"cy_be", "cy_o", "cy_er", "cy_i", "cy_es", "cy_pe", "cy_o", "cy_el", "cy_soft_sign">>,
      <<"CY_be", "cy_o", "cy_er", "cy_i", "cy_es", "cy_pe", "cy_ukr_i", "cy_el", "cy_soft_sign">>>>,
    <<<<"cy_ukr_i", "cy_en", "cy_sha", "cy_ie", " ", "cy_em", "cy_ukr_i", "cy_es", "cy_te", "cy_o">>,
      <<"CY_ukr_i", "cy_en", "cy_sha", "cy_ie", " ", "cy_em", "cy_ukr_i", "cy_es", "cy_te", "cy_o">>>>,
    <<<<"cy_ukr_i", "cy_en", "cy_sha", "cy_ie", "_", "cy_em", "cy_ukr_i", "cy_es", "cy_te", "cy_o">>,
      <<"CY_ukr_i", "cy_en", "cy_sha", "cy_ie", " ", "cy_em", "cy_ukr_i", "cy_es", "cy_te", "cy_o">>>>,
    <<<<"cy_de", "cy_er", "cy_u", "cy_ghe", "cy_o", "cy_short_i", " ", "cy_ghe", "cy_o", "cy_er", "cy_o", "cy_de">>,
      <<"CY_ukr_i", "cy_en", "cy_sha", "cy_ie", " ", "cy_em", "cy_ukr_i", "cy_es", "cy_te", "cy_o">>>>,
    <<<<"o", "t", "h", "e", "r">>,
      <<"CY_ukr_i", "cy_en", "cy_sha", "cy_ie", " ", "cy_em", "cy_ukr_i", "cy_es", "cy_te", "cy_o">>>>,
    <<<<"cy_de", "cy_er", "cy_u", "cy_ghe", "cy_o", "cy_short_i", "_", "cy_ghe", "cy_o", "cy_er", "cy_o", "cy_de">>,
      <<"CY_ukr_i", "cy_en", "cy_sha", "cy_ie", " ", "cy_em", "cy_ukr_i", "cy_es", "cy_te", "cy_o">>>>
  >>

META_Ads == <<"M", "E", "T", "A", " ", "A", "d", "s">>

Sajt == <<"CY_es", "cy_a", "cy_short_i", "cy_te">>

Placeholder == <<"emdash">>


NLetters == Len(LowerChars)

\* capital -> small and small -> capital
LowerOf ==
    [c \in {UpperChars[i] : i \in 1..NLetters} |->
        LowerChars[CHOOSE i \in 1..NLetters : UpperChars[i] = c]]

UpperOf ==
    [c \in {LowerChars[i] : i \in 1..NLetters} |->
        UpperChars[CHOOSE i \in 1..NLetters : LowerChars[i] = c]]

IsLower(c) == c \in DOMAIN UpperOf

IsUpper(c) == c \in DOMAIN LowerOf

LowerChar(c) == IF IsUpper(c) THEN LowerOf[c] ELSE c

UpperChar(c) == IF IsLower(c) THEN UpperOf[c] ELSE c

\* str.lower()
lower(s) == [i \in 1..Len(s) |-> LowerChar(s[i])]

\* str.title(): a letter after a non-letter is capitalised, the others lowered
title(s) ==
    [i \in 1..Len(s) |->
        IF i = 1 \/ ~(IsLower(s[i - 1]) \/ IsUpper(s[i - 1]))
            THEN UpperChar(s[i])
        ELSE LowerChar(s[i])]

RECURSIVE lstrip(_)
lstrip(s) ==
    IF s # <<>> /\ IsSpace(Head(s)) THEN lstrip(Tail(s)) ELSE s

RECURSIVE rstrip(_)
rstrip(s) ==
    IF s # <<>> /\ IsSpace(s[Len(s)]) THEN rstrip(SubSeq(s, 1, Len(s) - 1))
    ELSE s

\* str.strip()
strip(s) == lstrip(rstrip(s))

\* " ".join(args)
RECURSIVE join(_)
join(args) ==
    IF args = <<>> THEN <<>>
    ELSE IF Len(args) = 1 THEN args[1]
    ELSE args[1] \o <<" ">> \o join(Tail(args))

\* whether needle occurs in hay
Contains(hay, needle) ==
    \E i \in 1..(Len(hay) - Len(needle) + 1) :
        SubSeq(hay, i, i + Len(needle) - 1) = needle

(***************************************************************************)
(* normalize_city and the area label.                                      *)
(***************************************************************************)
\* re.sub(r"[_\-]", " ", raw)
UnderscoresToSpaces(raw) ==
    [i \in 1..Len(raw) |-> IF raw[i] \in {"_", "-"} THEN " " ELSE raw[i]]

normalize_city(raw) ==
    LET key == strip(lower(UnderscoresToSpaces(raw)))
    IN  IF \E i \in 1..Len(CITY_MAP) : CITY_MAP[i][1] = key
            THEN CITY_MAP[CHOOSE i \in 1..Len(CITY_MAP) : CITY_MAP[i][1] = key][2]
        ELSE title(strip(raw))

RECURSIVE StripTrailingUnderscores(_)
StripTrailingUnderscores(s) ==
    IF s # <<>> /\ s[Len(s)] = "_"
        THEN StripTrailingUnderscores(SubSeq(s, 1, Len(s) - 1))
    ELSE s

\* re.sub(r"[_]+$", "", area).strip()
clean_area(area) == strip(StripTrailingUnderscores(area))

(***************************************************************************)
(* parse_lead.  A message text is a sequence of lines; a line is           *)
(* [label, value]: the label it starts with (a signature, a field label,   *)
(* or "" for free text) and what follows the label and the run of colons   *)
(* and white space after it, up to the end of the line.  A value is empty  *)
(* or starts with a character that is neither a colon nor white space.     *)
(* The labels are written in Latin letters:                                *)
(*   "Novyj lid iz META Ads"  signature of the META Ads format             *)
(*   "Imya", "Nomer telefona", "Ploshchad pomeshcheniya", "Lokaciya",      *)
(*   "Kogda planiruete ustanovku", "Platforma"   its field labels          *)
(*   "Request details", "Nomer_telefonu"  signatures of the site format    *)
(*   "Name", "Ploshcha_prymishchennya", "Lokatsiya",                       *)
(*   "Koly_planuyete_vstanovlennya"   its field labels                     *)
(*   "Data Zayavki"  the date label of both formats                        *)
(***************************************************************************)
\* whether `sig in text`
HasSignature(text, sig) == \E i \in 1..Len(text) : text[i].label = sig

\* the nested extract(pattern, default="-"): the first line with the label
\* and a value, its value stripped
extract(text, label) ==
    LET hits == {i \in 1..Len(text) :
                    text[i].label = label /\ text[i].value # <<>>}
    IN  IF hits = {} THEN Placeholder
        ELSE strip(text[CHOOSE i \in hits : \A j \in hits : i <= j].value)

\* whether s starts with \d{2}\.\d{2}\.\d{4}
StartsWithDate(s) ==
    /\ Len(s) >= 10
    /\ AllDigits(SubSeq(s, 1, 2)) /\ s[3] = "."
    /\ AllDigits(SubSeq(s, 4, 5)) /\ s[6] = "."
    /\ AllDigits(SubSeq(s, 7, 10))

\* lines 80-81 and 94-95: the embedded date if there is one, else now_kyiv();
\* strptime raises on a date the calendar does not have
lead_date(text, now) ==
    LET hits == {i \in 1..Len(text) :
                    text[i].label = "Data Zayavki" /\ StartsWithDate(text[i].value)}
    IN  IF hits = {} THEN Ok(now)
        ELSE strptime(SubSeq(
                text[CHOOSE i \in hits : \A j \in hits : i <= j].value, 1, 10))

None == [kind |-> "None"]

Raised == [kind |-> "raise"]

Lead(l) == [kind |-> "lead", lead |-> l]

\* parse_lead with the test of the site format's signatures left out
parse_lead_any_text(text, now) ==
    IF ~lead_date(text, now).ok THEN Raised
    ELSE Lead([name     |-> extract(text, "Name"),
               phone    |-> extract(text, "Nomer_telefonu"),
               area     |-> extract(text, "Ploshcha_prymishchennya"),
               location |-> extract(text, "Lokatsiya"),
               timing   |-> extract(text, "Koly_planuyete_vstanovlennya"),
               platform |-> Sajt,
               source   |-> Sajt,
               date     |-> lead_date(text, now).val])

parse_lead(text, now) ==
    IF HasSignature(text, "Novyj lid iz META Ads") THEN
        IF ~lead_date(text, now).ok THEN Raised
        ELSE Lead([name     |-> extract(text, "Imya"),
                   phone    |-> extract(text, "Nomer telefona"),
                   area     |-> extract(text, "Ploshchad pomeshcheniya"),
                   location |-> extract(text, "Lokaciya"),
                   timing   |-> extract(text, "Kogda planiruete ustanovku"),
                   platform |-> extract(text, "Platforma"),
                   source   |-> META_Ads,
                   date     |-> lead_date(text, now).val])
    ELSE IF HasSignature(text, "Request details")
            \/ HasSignature(text, "Nomer_telefonu") THEN
        IF ~lead_date(text, now).ok THEN Raised
        ELSE Lead([name     |-> extract(text, "Name"),
                   phone    |-> extract(text, "Nomer_telefonu"),
                   area     |-> extract(text, "Ploshcha_prymishchennya"),
                   location |-> extract(text, "Lokatsiya"),
                   timing   |-> extract(text, "Koly_planuyete_vstanovlennya"),
                   platform |-> Sajt,
                   source   |-> Sajt,
                   date     |-> lead_date(text, now).val])
    ELSE None

(***************************************************************************)
(* build_report.  The report is modelled by the values its text is         *)
(* rendered from.                                                          *)
(***************************************************************************)
\* the records whose phone has not been seen before, in order
RECURSIVE Unique(_, _)
Unique(leads_list, seen) ==
    IF leads_list = <<>> THEN <<>>
    ELSE LET phone == strip(Head(leads_list).phone)
         IN  IF phone \notin seen
                 THEN <<Head(leads_list)>> \o Unique(Tail(leads_list), seen \cup {phone})
             ELSE Unique(Tail(leads_list), seen)

\* a defaultdict(int) counting keys, as the sequence of <<key, count>> in the
\* order the keys were first seen
RECURSIVE CountKeys(_, _)
CountKeys(keys, acc) ==
    IF keys = <<>> THEN acc
    ELSE LET k == Head(keys)
         IN  IF \E i \in 1..Len(acc) : acc[i][1] = k
                 THEN CountKeys(Tail(keys),
                        [i \in 1..Len(acc) |->
                            IF acc[i][1] = k THEN <<k, acc[i][2] + 1>> ELSE acc[i]])
             ELSE CountKeys(Tail(keys), Append(acc, <<k, 1>>))

\* sorted(items, key=lambda x: -x[1]): stable, by descending count
RECURSIVE SortedByCount(_)
SortedByCount(items) ==
    IF items = <<>> THEN <<>>
    ELSE LET best == CHOOSE i \in 1..Len(items) :
                        /\ \A j \in 1..Len(items) : items[j][2] <= items[i][2]
                        /\ \A j \in 1..(i - 1) : items[j][2] < items[i][2]
         IN  <<items[best]>> \o
             SortedByCount([j \in 1..(Len(items) - 1) |->
                                IF j < best THEN items[j] ELSE items[j + 1]])

\* f"{n/total*100:.0f}": rounded to the nearest integer, a half to the even one
Percent(n, total) ==
    LET q == (100 * n) \div total
        r == (100 * n) % total
    IN  IF 2 * r < total THEN q
        ELSE IF 2 * r > total THEN q + 1
        ELSE IF q % 2 = 0 THEN q ELSE q + 1

WithPercent(items, total) ==
    [i \in 1..Len(items) |->
        [key |-> items[i][1], n |-> items[i][2], pct |-> Percent(items[i][2], total)]]

build_report(leads_list, label) ==
    IF leads_list = <<>> THEN [empty |-> TRUE, label |-> label]
    ELSE
        LET unique     == Unique(leads_list, {})
            duplicates == Len(leads_list) - Len(unique)
            \* line 122: taken before leads_list is rebound to unique
            total      == Len(leads_list)
            cities     == CountKeys([i \in 1..Len(unique) |->
                                        normalize_city(unique[i].location)], <<>>)
            areas      == CountKeys([i \in 1..Len(unique) |->
                                        clean_area(unique[i].area)], <<>>)
            platforms  == CountKeys([i \in 1..Len(unique) |-> unique[i].platform], <<>>)
            sources    == CountKeys([i \in 1..Len(unique) |-> unique[i].source], <<>>)
        IN  [empty      |-> FALSE,
             label      |-> label,
             total      |-> total,
             duplicates |-> duplicates,
             cities     |-> WithPercent(SortedByCount(cities), total),
             areas      |-> WithPercent(SortedByCount(areas), total),
             platforms  |-> SortedByCount(platforms),
             sources    |-> SortedByCount(sources)]

(***************************************************************************)
(* The store and its file.  The store maps a day key to the sequence of    *)
(* the day's records.  The file is absent, or holds what json.dump wrote:  *)
(* the same mapping with every date as its isoformat text; a file whose    *)
(* writing was cut short (torn) holds a prefix of that, which is not JSON. *)
(***************************************************************************)
EmptyStore == [k \in {} |-> <<>>]

NoFile == [exists |-> FALSE, torn |-> FALSE, data |-> EmptyStore]

TornFile == [exists |-> TRUE, torn |-> TRUE, data |-> EmptyStore]

\* the file save_leads() writes for the store
save_leads(store) ==
    [exists |-> TRUE,
     torn   |-> FALSE,
     data   |-> [k \in DOMAIN store |->
                    [i \in 1..Len(store[k]) |->
                        [store[k][i] EXCEPT !.date = isoformat(@)]]]]

\* load_leads(): the store afterwards, or ValueError when json.load or
\* fromisoformat raises
load_leads(store, f) ==
    IF ~f.exists THEN Ok(store)
    ELSE IF f.torn THEN ValueError
    ELSE IF \E k \in DOMAIN f.data : \E i \in 1..Len(f.data[k]) :
                ~fromisoformat(f.data[k][i].date).ok THEN ValueError
    ELSE Ok([k \in DOMAIN store \cup DOMAIN f.data |->
                IF k \in DOMAIN f.data
                    THEN [i \in 1..Len(f.data[k]) |->
                            [f.data[k][i] EXCEPT !.date = fromisoformat(@).val]]
                ELSE store[k]])

\* leads.get(key, [])
Get(store, key) == IF key \in DOMAIN store THEN store[key] ELSE <<>>

\* leads[key].insert(0, lead)
InsertLeadFirst(store, key, lead) ==
    [k \in DOMAIN store \cup {key} |->
        IF k = key THEN <<lead>> \o Get(store, key) ELSE store[k]]

\* leads[key].append(lead)
AppendLead(store, key, lead) ==
    [k \in DOMAIN store \cup {key} |->
        IF k = key THEN Append(Get(store, key), lead) ELSE store[k]]

\* fired.get(day, 0)
FiredOn(counts, day) == IF day \in DOMAIN counts THEN counts[day] ELSE 0

\* leads.pop(key, None)
Pop(store, key) == [k \in DOMAIN store \ {key} |-> store[k]]

NumLeads(store) ==
    LET RECURSIVE Sum(_)
        Sum(ks) == IF ks = {} THEN 0
                   ELSE LET k == CHOOSE k \in ks : TRUE
                        IN  Len(store[k]) + Sum(ks \ {k})
    IN  Sum(DOMAIN store)

(***************************************************************************)
(* get_leads_for_range and parse_report_args.                              *)
(***************************************************************************)
\* get_leads_for_range with `while current < date_to`
RECURSIVE get_leads_before(_, _, _)
get_leads_before(store, date_from, date_to) ==
    IF DtLeq(date_from, date_to) /\ date_from # date_to
        THEN Get(store, DayKey(date_from))
             \o get_leads_before(store, PlusOneDay(date_from), date_to)
    ELSE <<>>

RECURSIVE get_leads_for_range(_, _, _)
get_leads_for_range(store, date_from, date_to) ==
    IF DtLeq(date_from, date_to)
        THEN Get(store, DayKey(date_from))
             \o get_leads_for_range(store, PlusOneDay(date_from), date_to)
    ELSE <<>>

\* "segodnya" and "mesyats", the keywords of /report
Segodnya == <<"cy_es", "cy_ie", "cy_ghe", "cy_o", "cy_de", "cy_en", "cy_ya">>

Mesyats == <<"cy_em", "cy_ie", "cy_es", "cy_ya", "cy_tse">>

\* \d{2}\.\d{2} at position i
MatchDM(text, i) ==
    /\ i >= 1 /\ i + 4 <= Len(text)
    /\ IsDigit(text[i]) /\ IsDigit(text[i + 1]) /\ text[i + 2] = "."
    /\ IsDigit(text[i + 3]) /\ IsDigit(text[i + 4])

\* \.\d{4} at position j
MatchYear(text, j) ==
    /\ j + 4 <= Len(text)
    /\ text[j] = "." /\ AllDigits(SubSeq(text, j + 1, j + 4))

\* \d{2}\.\d{2}(?:\.\d{4})? at position i: the length matched (greedy)
DateLen(text, i) == IF MatchYear(text, i + 5) THEN 10 ELSE 5

\* the position after \s* from position j
RECURSIVE SkipSpaces(_, _)
SkipSpaces(text, j) ==
    IF j <= Len(text) /\ IsSpace(text[j]) THEN SkipSpaces(text, j + 1) ELSE j

\* the range pattern at position i with the first date n characters long
PeriodAt(text, i, n) ==
    /\ MatchDM(text, i)
    /\ n = 10 => MatchYear(text, i + 5)
    /\ LET j == SkipSpaces(text, i + n)
       IN  /\ j <= Len(text) /\ text[j] = "-"
           /\ MatchDM(text, SkipSpaces(text, j + 1))

\* the leftmost position from i where the range pattern matches, 0 if none
RECURSIVE FindPeriod(_, _)
FindPeriod(text, i) ==
    IF i > Len(text) THEN 0
    ELSE IF PeriodAt(text, i, 10) \/ PeriodAt(text, i, 5) THEN i
    ELSE FindPeriod(text, i + 1)

\* re.search of the range pattern: the two groups of the leftmost match, the
\* first date with its year when the rest matches after it
SearchPeriod(text) ==
    LET i == FindPeriod(text, 1)
        n == IF PeriodAt(text, i, 10) THEN 10 ELSE 5
        p == SkipSpaces(text, SkipSpaces(text, i + n) + 1)
    IN  IF i = 0 THEN [found |-> FALSE]
        ELSE [found |-> TRUE,
              g1    |-> SubSeq(text, i, i + n - 1),
              g2    |-> SubSeq(text, p, p + DateLen(text, p) - 1)]

\* the leftmost position from i where the date pattern matches, 0 if none
RECURSIVE FindDate(_, _)
FindDate(text, i) ==
    IF i > Len(text) THEN 0
    ELSE IF MatchDM(text, i) THEN i
    ELSE FindDate(text, i + 1)

\* re.search of the single date pattern
SearchDate(text) ==
    LET i == FindDate(text, 1)
    IN  IF i = 0 THEN [found |-> FALSE]
        ELSE [found |-> TRUE, g1 |-> SubSeq(text, i, i + DateLen(text, i) - 1)]

\* the nested pd(s), and lines 190-191: the year defaults to today's
pd(s, today) ==
    IF Len(s) > 5 THEN strptime(s)
    ELSE strptime(s \o <<".">> \o Num4(today.year))

\* strftime("%d.%m") and strftime("%d.%m.%Y")
FmtDM(dt) == Num2(dt.day) \o <<".">> \o Num2(dt.month)

FmtDMY(dt) == FmtDM(dt) \o <<".">> \o Num4(dt.year)

\* the labels, by kind: "today (DD.MM.YYYY)", "<month name> YYYY" (the month
\* by its number), "DD.MM-DD.MM.YYYY", "DD.MM.YYYY"
Label(kind, a, b) == [kind |-> kind, a |-> a, b |-> b]

TodayLabel(today) == Label("today", FmtDMY(today), <<>>)

Result(leads_list, label) == [ok |-> TRUE, leads_list |-> leads_list, label |-> label]

parse_report_args(store, args, today) ==
    LET text   == lower(strip(join(args)))
        period == SearchPeriod(text)
        date_m == SearchDate(text)
    IN  IF text = <<>> \/ text = Segodnya
            THEN Result(Get(store, DayKey(today)), TodayLabel(today))
        ELSE IF Contains(text, Mesyats)
            THEN Result(get_leads_for_range(store, [today EXCEPT !.day = 1], today),
                        Label("month", Num2(today.month), Num4(today.year)))
        ELSE IF period.found
            THEN LET d1 == pd(period.g1, today)
                     d2 == pd(period.g2, today)
                 IN  IF ~d1.ok \/ ~d2.ok THEN ValueError
                     ELSE Result(get_leads_for_range(store, d1.val, d2.val),
                                 Label("period", FmtDM(d1.val), FmtDMY(d2.val)))
        ELSE IF date_m.found
            THEN LET d == pd(date_m.g1, today)
                 IN  IF ~d.ok THEN ValueError
                     ELSE Result(Get(store, DayKey(d.val)),
                                 Label("date", FmtDMY(d.val), <<>>))
        ELSE Result(Get(store, DayKey(today)), TodayLabel(today))

(***************************************************************************)
(* The clock.  clock is the UTC wall clock; Kyiv is two hours ahead of it  *)
(* over the days modelled (winter time).                                   *)
(***************************************************************************)
\* dt plus secs seconds and us microseconds, less than a day in all
AddTime(dt, secs, us) ==
    LET micro == dt.microsecond + us
        sod   == dt.hour * 3600 + dt.minute * 60 + dt.second + secs
                    + micro \div 1000000
        day   == IF sod >= 86400 THEN PlusOneDay(dt) ELSE dt
        s     == sod % 86400
    IN  [day EXCEPT !.hour = s \div 3600, !.minute = (s % 3600) \div 60,
                    !.second = s % 60, !.microsecond = micro % 1000000]

\* now_kyiv(): datetime.now(KYIV_TZ).replace(tzinfo=None)
now_kyiv(utc) == AddTime(utc, 2 * 3600, 0)

\* the first moment of the day at or after utc whose time is hour:00
NextRun(utc, hour) ==
    LET at == [utc EXCEPT !.hour = hour, !.minute = 0, !.second = 0,
                          !.microsecond = 0]
    IN  IF DtLeq(utc, at) THEN at ELSE PlusOneDay(at)

\* job_queue.run_daily(send_daily_report, time=time(hour, 0), name="daily_report")
run_daily(queue, utc, hour) ==
    Append(queue, [name |-> "daily_report", hour |-> hour, next |-> NextRun(utc, hour)])

\* job.schedule_removal() for every job of get_jobs_by_name(name)
remove_jobs(queue, name) == SelectSeq(queue, LAMBDA j : j.name # name)

\* int(s): an optional sign, then digits, single underscores between them
int(s) ==
    LET signed == s # <<>> /\ s[1] \in {"+", "-"}
        body   == IF signed THEN Tail(s) ELSE s
        digits == SelectSeq(body, LAMBDA c : c # "_")
        wellFormed ==
            /\ digits # <<>>
            /\ AllDigits(digits)
            /\ \A i \in 1..Len(body) :
                body[i] = "_" =>
                    /\ i > 1 /\ i < Len(body)
                    /\ IsDigit(body[i - 1]) /\ IsDigit(body[i + 1])
    IN  IF ~wellFormed THEN ValueError
        ELSE IF signed /\ s[1] = "-" THEN Ok(0 - ParseNum(digits))
        ELSE Ok(ParseNum(digits))

(***************************************************************************)
(* The inputs the model feeds the handlers.                                *)
(***************************************************************************)
Line(label, value) == [label |-> label, value |-> value]

\* ordinary chat text
TextChat == <<Line("", <<"h", "i">>)>>

\* field labels of both formats, and no signature
TextLabelsOnly ==
    <<Line("Imya", <<"A", "n", "n">>),
      Line("Nomer telefona", <<"+", "1">>),
      Line("Name", <<"B", "o", "b">>),
      Line("Lokatsiya", <<"b", "u", "c", "h", "a">>),
      Line("Data Zayavki", <<"3", "1", ".", "1", "2", ".", "2", "0", "2", "5">>)>>

\* a META Ads lead without a date
TextMetaKiev ==
    <<Line("Novyj lid iz META Ads", <<>>),
      Line("Imya", <<"A", "n", "n">>),
      Line("Nomer telefona", <<"+", "1">>),
      Line("Ploshchad pomeshcheniya", <<"5", "0", "_", "_">>),
      Line("Lokaciya", <<"cy_ka", "cy_i", "cy_ie", "cy_ve">>),
      Line("Platforma", <<"f", "b">>)>>

\* a META Ads lead of the same phone and another city, dated 31.12.2025
TextMetaBucha ==
    <<Line("Novyj lid iz META Ads", <<>>),
      Line("Nomer telefona", <<"+", "1", " ">>),
      Line("Lokaciya", <<"b", "u", "c", "h", "a">>),
      Line("Data Zayavki", <<"3", "1", ".", "1", "2", ".", "2", "0", "2", "5">>)>>

\* a site lead whose date field does not have the shape DD.MM.YYYY
TextSite ==
    <<Line("Request details", <<>>),
      Line("Name", <<"B", "o", "b">>),
      Line("Nomer_telefonu", <<"+", "2">>),
      Line("Lokatsiya", <<"i", "r", "p", "i", "n", "_">>),
      Line("Data Zayavki", <<"1", ".", "1", ".", "2", "6">>)>>

\* a site lead dated 31.02.2026, a day the calendar does not have
TextBadDate ==
    <<Line("Nomer_telefonu", <<"+", "3">>),
      Line("Data Zayavki", <<"3", "1", ".", "0", "2", ".", "2", "0", "2", "6">>)>>

Update(text) == [has_message |-> TRUE, chat_id |-> 1001, text |-> text]

\* an update without a message (an edited message, a channel post)
UpdateNoMessage == [has_message |-> FALSE, chat_id |-> 1001, text |-> <<>>]

Updates ==
    <<UpdateNoMessage, Update(TextChat), Update(TextLabelsOnly),
      Update(TextMetaKiev), Update(TextMetaBucha), Update(TextSite),
      Update(TextBadDate)>>

\* the updates of the scheduling specification, by their places in Updates
SchedUpdates == {2, 5}

\* context.args of /report
ReportArgs ==
    <<<<>>,
      <<Segodnya>>,
      <<Mesyats>>,
      <<<<"3", "1", ".", "1", "2", "-", "0", "1", ".", "0", "1">>>>,
      <<<<"3", "1", ".", "1", "2", ".", "2", "0", "2", "5", "-",
          "0", "1", ".", "0", "1", ".", "2", "0", "2", "6">>>>,
      <<<<"3", "0", ".", "1", "2">>, <<"-">>, <<"3", "1", ".", "1", "2">>>>,
      <<<<"0", "1", ".", "0", "1">>>>,
      <<<<"3", "1", ".", "0", "2", "-", "0", "5", ".", "0", "3">>>>>>

\* context.args of /settime
SettimeArgs ==
    <<<<>>,
      <<<<"a", "b", "c">>>>,
      <<<<"2", "4">>>>,
      <<<<"-", "1">>>>,
      <<<<"2", "1", ".", "5">>>>,
      <<<<"7">>>>,
      <<<<"2", "2">>, <<"x">>>>>>

(***************************************************************************)
(* The state.                                                              *)
(***************************************************************************)
VARIABLES
    BOT_TOKEN,      \* the token of the environment, "" when it is not set
    REPORT_HOUR,    \* the hour (UTC) of the daily report
    CHAT_ID,        \* <<>> for None, else <<chat_id>>
    leads,          \* the store: day key -> the day's records
    file,           \* LEADS_FILE
    clock,          \* the UTC wall clock
    ticks,          \* steps the clock has made
    jobs,           \* the job queue
    fired,          \* UTC day -> runs of the daily report scheduled in it
    pc,             \* send_daily_report: "idle", or "sending" at its await
    snap,           \* what a send_daily_report in progress holds
    phase,          \* the process: "down", "loop" or "running"
    out             \* what the last step did and replied

vars == <<BOT_TOKEN, REPORT_HOUR, CHAT_ID, leads, file, clock, ticks, jobs,
          fired, pc, snap, phase, out>>

NoSnap == [key |-> "", reported |-> <<>>]

\* 2025-12-31 11:30:15.5 UTC, 13:30:15.5 in Kyiv
Clock0 == datetime(2025, 12, 31, 11, 30, 15, 500000)

\* the hour REPORT_HOUR_UTC defaults to
DefaultReportHour == 21

(***************************************************************************)
(* The handlers.  A handler without an await runs in one step; the event   *)
(* loop runs nothing else during it.                                       *)
(***************************************************************************)
\* handle_message(update, context), for the update Updates[u]
handle_message(u) ==
    /\ phase = "running"
    /\ LET update == Updates[u] IN
       IF ~update.has_message
        THEN /\ out' = [op |-> "message", update |-> u, result |-> "no_message",
                        wrote |-> FALSE]
             /\ UNCHANGED <<CHAT_ID, leads, file>>
        ELSE LET parsed == parse_lead(update.text, now_kyiv(clock))
             IN  /\ CHAT_ID' = IF CHAT_ID = <<>> THEN <<update.chat_id>> ELSE CHAT_ID
                 /\ IF parsed.kind = "lead"
                     THEN LET key == DayKey(parsed.lead.date)
                          IN  /\ NumLeads(leads) < MaxLeads
                              /\ leads' = AppendLead(leads, key, parsed.lead)
                              /\ file' = save_leads(leads')
                              /\ out' = [op |-> "message", update |-> u,
                                         result |-> "saved", wrote |-> TRUE,
                                         key |-> key, lead |-> parsed.lead]
                     ELSE /\ out' = [op |-> "message", update |-> u,
                                     result |-> parsed.kind, wrote |-> FALSE]
                          /\ UNCHANGED <<leads, file>>
    /\ UNCHANGED <<BOT_TOKEN, REPORT_HOUR, clock, ticks, jobs, fired, pc, snap, phase>>

\* cmd_report(update, context), for context.args = ReportArgs[a]: nothing is
\* replied when parse_report_args raises
cmd_report(a) ==
    /\ phase = "running"
    /\ LET res == parse_report_args(leads, ReportArgs[a], now_kyiv(clock))
       IN  out' = IF res.ok
                    THEN [op |-> "report", args |-> a, result |-> "replied",
                          leads_list |-> res.leads_list,
                          report |-> build_report(res.leads_list, res.label)]
                  ELSE [op |-> "report", args |-> a, result |-> "raise"]
    /\ UNCHANGED <<BOT_TOKEN, REPORT_HOUR, CHAT_ID, leads, file, clock, ticks,
                   jobs, fired, pc, snap, phase>>

\* cmd_settime with REPORT_HOUR assigned before the test of its range
cmd_settime_assign_first(a) ==
    /\ phase = "running"
    /\ LET args == SettimeArgs[a] IN
       IF args = <<>>
        THEN /\ out' = [op |-> "settime", args |-> a, reply |-> "usage"]
             /\ UNCHANGED <<REPORT_HOUR, jobs>>
        ELSE LET new_hour == int(args[1])
             IN  IF new_hour.ok /\ 0 <= new_hour.val /\ new_hour.val <= 23
                     THEN /\ REPORT_HOUR' = new_hour.val
                          /\ jobs' = run_daily(remove_jobs(jobs, "daily_report"),
                                               clock, new_hour.val)
                          /\ out' = [op |-> "settime", args |-> a, reply |-> "changed",
                                     kyiv_hour |-> (new_hour.val + 2) % 24]
                 ELSE /\ out' = [op |-> "settime", args |-> a, reply |-> "error"]
                      /\ REPORT_HOUR' = IF new_hour.ok THEN new_hour.val ELSE REPORT_HOUR
                      /\ UNCHANGED jobs
    /\ UNCHANGED <<BOT_TOKEN, CHAT_ID, leads, file, clock, ticks, fired, pc, snap, phase>>

\* cmd_settime(update, context), for context.args = SettimeArgs[a]
cmd_settime(a) ==
    /\ phase = "running"
    /\ LET args == SettimeArgs[a] IN
       IF args = <<>>
        THEN /\ out' = [op |-> "settime", args |-> a, reply |-> "usage"]
             /\ UNCHANGED <<REPORT_HOUR, jobs>>
        ELSE LET new_hour == int(args[1])
             IN  IF new_hour.ok /\ 0 <= new_hour.val /\ new_hour.val <= 23
                     THEN /\ REPORT_HOUR' = new_hour.val
                          /\ jobs' = run_daily(remove_jobs(jobs, "daily_report"),
                                               clock, new_hour.val)
                          /\ out' = [op |-> "settime", args |-> a, reply |-> "changed",
                                     kyiv_hour |-> (new_hour.val + 2) % 24]
                 ELSE /\ out' = [op |-> "settime", args |-> a, reply |-> "error"]
                      /\ UNCHANGED <<REPORT_HOUR, jobs>>
    /\ UNCHANGED <<BOT_TOKEN, CHAT_ID, leads, file, clock, ticks, fired, pc, snap, phase>>

\* send_daily_report(context) up to its await: the report is built from
\* today's bucket and handed to send_message
send_daily_report ==
    IF CHAT_ID = <<>>
        THEN /\ out' = [op |-> "daily", result |-> "no_chat", evicted |-> <<>>,
                        reported |-> <<>>]
             /\ UNCHANGED <<pc, snap>>
    ELSE LET today == now_kyiv(clock)
             key   == DayKey(today)
         IN  /\ pc' = "sending"
             /\ snap' = [key |-> key, reported |-> Get(leads, key)]
             /\ out' = [op |-> "daily", result |-> "sending", evicted |-> <<>>,
                        reported |-> Get(leads, key),
                        report |-> build_report(Get(leads, key), TodayLabel(today))]

\* the job queue runs a job that is due
job_run ==
    /\ phase = "running"
    /\ pc = "idle"
    /\ \E i \in 1..Len(jobs) :
        /\ DtLeq(jobs[i].next, clock)
        /\ send_daily_report
        /\ jobs' = [jobs EXCEPT ![i].next = PlusOneDay(@)]
        /\ fired' = LET day == DayKey(jobs[i].next)
                    IN  [k \in DOMAIN fired \cup {day} |->
                            IF k = day THEN FiredOn(fired, k) + 1 ELSE fired[k]]
    /\ UNCHANGED <<BOT_TOKEN, REPORT_HOUR, CHAT_ID, leads, file, clock, ticks, phase>>

\* send_daily_report with save_leads() called before leads.pop(key, None)
send_daily_report_save_first ==
    /\ phase = "running"
    /\ pc = "sending"
    /\ file' = save_leads(leads)
    /\ leads' = Pop(leads, snap.key)
    /\ out' = [op |-> "daily", result |-> "sent", evicted |-> Get(leads, snap.key),
               reported |-> snap.reported]
    /\ pc' = "idle"
    /\ snap' = NoSnap
    /\ UNCHANGED <<BOT_TOKEN, REPORT_HOUR, CHAT_ID, clock, ticks, jobs, fired, phase>>

\* send_daily_report after its await, the message sent: the bucket is evicted
send_daily_report_sent ==
    /\ phase = "running"
    /\ pc = "sending"
    /\ leads' = Pop(leads, snap.key)
    /\ file' = save_leads(leads')
    /\ out' = [op |-> "daily", result |-> "sent", evicted |-> Get(leads, snap.key),
               reported |-> snap.reported]
    /\ pc' = "idle"
    /\ snap' = NoSnap
    /\ UNCHANGED <<BOT_TOKEN, REPORT_HOUR, CHAT_ID, clock, ticks, jobs, fired, phase>>

\* send_message raises: the job ends there
send_daily_report_failed ==
    /\ phase = "running"
    /\ pc = "sending"
    /\ out' = [op |-> "daily", result |-> "send_failed", evicted |-> <<>>,
               reported |-> snap.reported]
    /\ pc' = "idle"
    /\ snap' = NoSnap
    /\ UNCHANGED <<BOT_TOKEN, REPORT_HOUR, CHAT_ID, leads, file, clock, ticks,
                   jobs, fired, phase>>

(***************************************************************************)
(* Time passes, once the jobs that are due have been run.                  *)
(***************************************************************************)
NoJobDue == \A i \in 1..Len(jobs) : ~DtLeq(jobs[i].next, clock)

Advance(utc) ==
    /\ NoJobDue
    /\ clock' = utc
    /\ ticks' = ticks + 1
    /\ fired' = [k \in DOMAIN fired \cup {DayKey(utc)} |-> FiredOn(fired, k)]
    /\ out' = [op |-> "tick"]
    /\ UNCHANGED <<BOT_TOKEN, REPORT_HOUR, CHAT_ID, leads, file, jobs, pc, snap, phase>>

\* 9 h 45 min 44.5 s pass
Tick ==
    /\ ticks < MaxTicks
    /\ Advance(AddTime(clock, 9 * 3600 + 45 * 60 + 44, 500000))

\* an hour passes
HourTick ==
    /\ ticks < 24 * MaxSchedDays
    /\ Advance(AddTime(clock, 3600, 0))

(***************************************************************************)
(* The process: main() in the loop of lines 288-293.                       *)
(***************************************************************************)
\* the process starts, its globals as the module sets them
process_start ==
    /\ phase = "down"
    /\ phase' = "loop"
    /\ leads' = EmptyStore
    /\ CHAT_ID' = <<>>
    /\ REPORT_HOUR' = DefaultReportHour
    /\ jobs' = <<>>
    /\ pc' = "idle"
    /\ snap' = NoSnap
    /\ out' = [op |-> "start"]
    /\ UNCHANGED <<BOT_TOKEN, file, clock, ticks, fired>>

\* asyncio.run(main()): up to run_polling, or to the exception the loop catches
main ==
    /\ phase = "loop"
    /\ IF BOT_TOKEN = ""
        THEN /\ out' = [op |-> "main", result |-> "no_token", load |-> "not_run"]
             /\ UNCHANGED <<leads, jobs, phase>>
        ELSE LET loaded == load_leads(leads, file)
             IN  IF ~loaded.ok
                     THEN /\ out' = [op |-> "main", result |-> "raise", load |-> "failed"]
                          /\ UNCHANGED <<leads, jobs, phase>>
                 ELSE /\ leads' = loaded.val
                      /\ jobs' = run_daily(<<>>, clock, REPORT_HOUR)
                      /\ phase' = "running"
                      /\ out' = [op |-> "main", result |-> "running", load |-> "done"]
    /\ UNCHANGED <<BOT_TOKEN, REPORT_HOUR, CHAT_ID, file, clock, ticks, fired, pc, snap>>

\* run_polling raises (a transport failure): the loop catches it and sleeps
polling_error ==
    /\ phase = "running"
    /\ phase' = "loop"
    /\ pc' = "idle"
    /\ snap' = NoSnap
    /\ out' = [op |-> "polling_error"]
    /\ UNCHANGED <<BOT_TOKEN, REPORT_HOUR, CHAT_ID, leads, file, clock, ticks, jobs, fired>>

\* the process is killed while save_leads is writing the file for a lead
crash_in_save(u) ==
    /\ phase = "running"
    /\ Updates[u].has_message
    /\ parse_lead(Updates[u].text, now_kyiv(clock)).kind = "lead"
    /\ phase' = "down"
    /\ file' = TornFile
    /\ out' = [op |-> "crash"]
    /\ UNCHANGED <<BOT_TOKEN, REPORT_HOUR, CHAT_ID, leads, clock, ticks, jobs, fired,
                   pc, snap>>

(***************************************************************************)
(* The specifications.                                                     *)
(***************************************************************************)
\* the bot running, after main() found no file
InitRunning ==
    /\ BOT_TOKEN = "token"
    /\ REPORT_HOUR = DefaultReportHour
    /\ CHAT_ID = <<>>
    /\ leads = EmptyStore
    /\ file = NoFile
    /\ clock = Clock0
    /\ ticks = 0
    /\ jobs = run_daily(<<>>, Clock0, DefaultReportHour)
    /\ fired = [k \in {DayKey(Clock0)} |-> 0]
    /\ pc = "idle"
    /\ snap = NoSnap
    /\ phase = "running"
    /\ out = [op |-> "init"]

\* messages, reports and the daily report
Init == InitRunning

Next ==
    \/ \E u \in 1..Len(Updates) : handle_message(u)
    \/ \E a \in 1..Len(ReportArgs) : cmd_report(a)
    \/ job_run
    \/ send_daily_report_sent
    \/ send_daily_report_failed
    \/ Tick

Spec == Init /\ [][Next]_vars

\* the schedule of the daily report
NextSched ==
    \/ \E u \in SchedUpdates : handle_message(u)
    \/ \E a \in 1..Len(SettimeArgs) : cmd_settime(a)
    \/ job_run
    \/ send_daily_report_sent
    \/ send_daily_report_failed
    \/ HourTick

SpecSched == InitRunning /\ [][NextSched]_vars

\* the process from its first start
InitBoot ==
    /\ BOT_TOKEN \in {"", "token"}
    /\ REPORT_HOUR = DefaultReportHour
    /\ CHAT_ID = <<>>
    /\ leads = EmptyStore
    /\ file = NoFile
    /\ clock = Clock0
    /\ ticks = 0
    /\ jobs = <<>>
    /\ fired = [k \in {DayKey(Clock0)} |-> 0]
    /\ pc = "idle"
    /\ snap = NoSnap
    /\ phase = "down"
    /\ out = [op |-> "init"]

NextBoot ==
    \/ process_start
    \/ main
    \/ polling_error
    \/ \E u \in 1..Len(Updates) : handle_message(u)
    \/ \E u \in 1..Len(Updates) : crash_in_save(u)
    \/ Tick

SpecBoot == InitBoot /\ [][NextBoot]_vars

(***************************************************************************)
(* The claims.                                                             *)
(***************************************************************************)
\* the report the last step built, and the records it was built from
LastReportBuilt ==
    \/ out.op = "report" /\ out.result = "replied"
    \/ out.op = "daily" /\ out.result = "sending"

LastReport == out.report

LastReportInput == IF out.op = "report" THEN out.leads_list ELSE out.reported

TrimmedPhones(list) == {strip(list[i].phone) : i \in 1..Len(list)}

\* C1: a report on a list of records that is not empty gives as total the
\* number of distinct trimmed phones, as duplicates the records beyond that,
\* and every city and area percentage is taken of that total.
C1_TotalIsPostDeduplication ==
    (LastReportBuilt /\ LastReportInput # <<>>) =>
        LET n == Len(LastReportInput)
            u == Cardinality(TrimmedPhones(LastReportInput))
        IN  /\ LastReport.total = u
            /\ LastReport.duplicates = n - u
            /\ \A i \in 1..Len(LastReport.cities) :
                LastReport.cities[i].pct = Percent(LastReport.cities[i].n, u)
            /\ \A i \in 1..Len(LastReport.areas) :
                LastReport.areas[i].pct = Percent(LastReport.areas[i].n, u)

\* what the file holds is what the store holds
FileMatchesStore ==
    IF file.exists THEN file = save_leads(leads) ELSE leads = EmptyStore

\* C2: whenever no handler is in progress the file holds what the store
\* holds, and the lead a message handler has just accepted is the last record
\* of its bucket in the store and in the file.
C2_StoreIsFlushed ==
    pc = "idle" =>
        /\ FileMatchesStore
        /\ (out.op = "message" /\ out.result = "saved") =>
            /\ out.key \in DOMAIN leads
            /\ leads[out.key][Len(leads[out.key])] = out.lead
            /\ file.exists /\ ~file.torn
            /\ out.key \in DOMAIN file.data
            /\ Len(file.data[out.key]) = Len(leads[out.key])
            /\ file.data[out.key][Len(leads[out.key])]
                    = [out.lead EXCEPT !.date = isoformat(@)]

\* a bucket was evicted by the daily report while another bucket stays, after
\* a message was handled during the send
C2_Witness ==
    /\ pc = "idle"
    /\ out.op = "daily" /\ out.result = "sent" /\ out.evicted # <<>>
    /\ leads # EmptyStore

\* C3: saving the store and loading the file into an empty store gives the
\* store back: the same day keys and under each the same records in the same
\* order, the timestamps included.
C3_SaveLoadRoundTrip ==
    LET loaded == load_leads(EmptyStore, save_leads(leads))
    IN  /\ loaded.ok
        /\ DOMAIN loaded.val = DOMAIN leads
        /\ \A k \in DOMAIN leads :
            /\ Len(loaded.val[k]) = Len(leads[k])
            /\ \A i \in 1..Len(leads[k]) : loaded.val[k][i] = leads[k][i]

\* the store holds two buckets, a timestamp with microseconds and one without
C3_Witness ==
    /\ Cardinality(DOMAIN leads) = 2
    /\ \E k \in DOMAIN leads : \E i \in 1..Len(leads[k]) :
        leads[k][i].date.microsecond # 0
    /\ \E k \in DOMAIN leads : \E i \in 1..Len(leads[k]) :
        leads[k][i].date.microsecond = 0

\* C4: after a main() whose load of the file failed, the bot is running with
\* an empty store.
C4_FailedLoadDegrades ==
    (out.op = "main" /\ out.load = "failed") =>
        (phase = "running" /\ leads = EmptyStore)

\* C5: one daily_report job is scheduled, at REPORT_HOUR, and every day that
\* has passed had exactly one run of the daily report scheduled in it, no day
\* more than one.
C5_OneJobOnceADay ==
    /\ Len(jobs) = 1
    /\ jobs[1].hour = REPORT_HOUR
    /\ \A day \in DOMAIN fired :
        /\ fired[day] <= 1
        /\ day # DayKey(clock) => fired[day] = 1

\* the decimal texts of the hours 0..23
HourTexts == {<<DigitChar(h)>> : h \in 0..9} \cup {Num2(h) : h \in 0..23}

MalformedSettime(args) == args = <<>> \/ args[1] \notin HourTexts

\* C6: a /settime whose argument is missing or is no hour 0..23 replies an
\* error and leaves REPORT_HOUR, the job queue, the store and the file as they
\* were.
C6_MalformedSettimeChangesNothing ==
    [][(out'.op = "settime" /\ MalformedSettime(SettimeArgs[out'.args])) =>
            /\ out'.reply \in {"usage", "error"}
            /\ REPORT_HOUR' = REPORT_HOUR
            /\ jobs' = jobs
            /\ leads' = leads
            /\ file' = file]_vars

\* a malformed /settime was answered after the hour had been changed, with
\* leads in the store
C6_Witness ==
    /\ out.op = "settime" /\ out.reply = "error"
    /\ REPORT_HOUR # DefaultReportHour
    /\ leads # EmptyStore

\* the day of a bucket: the day of its first record
BucketDay(store, k) == store[k][1].date

\* the keys of ks in calendar order
RECURSIVE KeysInOrder(_, _)
KeysInOrder(store, ks) ==
    IF ks = {} THEN <<>>
    ELSE LET first == CHOOSE k \in ks : \A other \in ks :
                        DateLeq(BucketDay(store, k), BucketDay(store, other))
         IN  <<first>> \o KeysInOrder(store, ks \ {first})

\* the records of the buckets of the days d1..d2, in calendar order
RecordsOfDays(store, d1, d2) ==
    LET ks == {k \in DOMAIN store :
                /\ DateLeq(d1, BucketDay(store, k))
                /\ DateLeq(BucketDay(store, k), d2)}
        order == KeysInOrder(store, ks)
    IN  Concat([i \in 1..Len(order) |-> store[order[i]]])

\* the first and the last day of the range arguments of ReportArgs, the
\* current year being y: "31.12-01.01", "31.12.2025-01.01.2026", "30.12 - 31.12"
RangeArgs == {4, 5, 6}

Midnight(y, m, d) == datetime(y, m, d, 0, 0, 0, 0)

FirstDay(a, y) ==
    CASE a = 4 -> Midnight(y, 12, 31)
      [] a = 5 -> Midnight(2025, 12, 31)
      [] a = 6 -> Midnight(y, 12, 30)

LastDay(a, y) ==
    CASE a = 4 -> Midnight(y, 1, 1)
      [] a = 5 -> Midnight(2026, 1, 1)
      [] a = 6 -> Midnight(y, 12, 31)

\* a store with one record on each day from 31.01 to 06.02 of the year
ProbeRecord(y, m, d) == [date |-> datetime(y, m, d, 0, 0, 0, 0)]

ProbeStore(y) ==
    LET days == {<<1, 31>>, <<2, 1>>, <<2, 2>>, <<2, 3>>, <<2, 4>>, <<2, 5>>, <<2, 6>>}
    IN  [k \in {DayKey(ProbeRecord(y, md[1], md[2]).date) : md \in days} |->
            <<ProbeRecord(y, (CHOOSE md \in days :
                                DayKey(ProbeRecord(y, md[1], md[2]).date) = k)[1],
                             (CHOOSE md \in days :
                                DayKey(ProbeRecord(y, md[1], md[2]).date) = k)[2])>>]

Feb1To5 == <<<<"0", "1", ".", "0", "2", "-", "0", "5", ".", "0", "2">>>>

\* C7: a /report whose argument is a range D1.M1[.Y1]-D2.M2[.Y2], the year
\* defaulting to the current one, is built from the records of the buckets of
\* the days D1..D2, in calendar order and in each bucket's order, and from no
\* other record; "01.02-05.02" gives the five days from 1 to 5 February.
C7_RangeCoversItsDays ==
    /\ (out.op = "report" /\ out.args \in RangeArgs) =>
        LET y == now_kyiv(clock).year
        IN  /\ out.result = "replied"
            /\ out.leads_list
                = RecordsOfDays(leads, FirstDay(out.args, y), LastDay(out.args, y))
    /\ LET y == now_kyiv(clock).year
       IN  parse_report_args(ProbeStore(y), Feb1To5, now_kyiv(clock)).leads_list
            = [d \in 1..5 |-> ProbeRecord(y, 2, d)]

\* a range over the turn of the year was reported, a record on each side
C7_Witness ==
    /\ out.op = "report" /\ out.result = "replied" /\ out.args = 5
    /\ Len(out.leads_list) = 2
    /\ out.leads_list[1].date.year = 2025
    /\ out.leads_list[2].date.year = 2026

Signatures == {"Novyj lid iz META Ads", "Request details", "Nomer_telefonu"}

NoSignature(text) == \A i \in 1..Len(text) : text[i].label \notin Signatures

\* C8: a message whose text has neither signature parses to None, and its
\* handler leaves the store and the file as they were and writes nothing.
C8_NonLeadChangesNothing ==
    [][(/\ out'.op = "message"
        /\ Updates[out'.update].has_message
        /\ NoSignature(Updates[out'.update].text)) =>
            /\ out'.result = "None"
            /\ ~out'.wrote
            /\ leads' = leads
            /\ file' = file]_vars

\* a text with field labels and no signature was handled with leads in the store
C8_Witness ==
    /\ out.op = "message" /\ out.update = 3 /\ out.result = "None"
    /\ leads # EmptyStore

\* every record is in the bucket of the day of its date
KeysMatchDates(store) ==
    \A k \in DOMAIN store : \A i \in 1..Len(store[k]) :
        DayKey(store[k][i].date) = k

\* the lines of the text that carry a date DD.MM.YYYY
DateLines(text) ==
    {i \in 1..Len(text) :
        text[i].label = "Data Zayavki" /\ StartsWithDate(text[i].value)}

\* C9: every record is in the bucket of the calendar day of its date, which
\* is the date embedded in its message when there is one and else the Kyiv
\* date of its handling; an accepted message adds one record, at the end of
\* that bucket; no step changes or reorders the records of a bucket that stays.
C9_OneBucketByDate ==
    [][ /\ KeysMatchDates(leads')
        /\ \A k \in DOMAIN leads \cap DOMAIN leads' :
            /\ Len(leads[k]) <= Len(leads'[k])
            /\ SubSeq(leads'[k], 1, Len(leads[k])) = leads[k]
        /\ (out'.op = "message" /\ out'.result = "saved") =>
            LET text == Updates[out'.update].text
                lead == out'.lead
                day  == DayKey(lead.date)
            IN  /\ DateLines(text) = {} => lead.date = now_kyiv(clock)
                /\ \A i \in DateLines(text) :
                    (\A j \in DateLines(text) : i <= j) =>
                        /\ Num2(lead.date.day) = SubSeq(text[i].value, 1, 2)
                        /\ Num2(lead.date.month) = SubSeq(text[i].value, 4, 5)
                        /\ Num4(lead.date.year) = SubSeq(text[i].value, 7, 10)
                /\ DOMAIN leads' = DOMAIN leads \cup {day}
                /\ leads'[day] = Append(Get(leads, day), lead)
                /\ \A k \in DOMAIN leads \ {day} : leads'[k] = leads[k]
      ]_vars

\* a lead dated the day before its handling was added behind another record
C9_Witness ==
    /\ out.op = "message" /\ out.result = "saved" /\ out.update = 5
    /\ out.key # DayKey(now_kyiv(clock))
    /\ Len(leads[out.key]) = 2

\* C10: the records the daily report evicts are records of the report it
\* sent, and it evicts nothing when no chat is known or the send fails.
C10_EvictsOnlyReported ==
    out.op = "daily" =>
        /\ out.result \in {"no_chat", "send_failed"} => out.evicted = <<>>
        /\ \A i \in 1..Len(out.evicted) :
            /\ i <= Len(out.reported)
            /\ out.evicted[i] = out.reported[i]
============================================================================
